---- MODULE Spec2Model ----
(***************************************************************************)
(* Model of scripts/migrate-bucket.sh (the migration orchestrator) driving *)
(* the two CDK stacks of lib/stack-a.ts and lib/stack-b.ts.                *)
(*                                                                         *)
(* The external world is the S3 bucket (exists, items) and the resource    *)
(* list of each CloudFormation stack (owned).  One action models one       *)
(* invocation of the script with one step name; everything the outside     *)
(* world decides (tool presence, whether an AWS query or a cdk command     *)
(* fails) is an input of the action.                                       *)
(***************************************************************************)
EXTENDS Integers, Sequences, FiniteSets, TLC

\* ---------------------------------------------------------------- bounds
MaxItems == 2

\* ------------------------------------------------------------- constants
SOURCE_STACK == "StackA"
TARGET_STACK == "StackB"
Stacks == {SOURCE_STACK, TARGET_STACK}
\* The context flags the declarations read, and the one the script leaves to
\* the ambient context (cdk.json): it passes importBucket itself, never migrateBucket.
Flags == {"migrateBucket", "importBucket"}
AmbientFlags == {"migrateBucket"}

\* scripts/load-files.js loads 5 sample files.
SampleFiles == 5
\* The object counts a run may start from.
ItemCounts == {0, SampleFiles, MaxItems}

\* The order the README runs the steps in.
Canon == <<"validate", "remove-source", "prepare-target", "import", "verify">>

VARIABLES
    owned,      \* owned[s]: stack s lists the bucket among its resources
    exists,     \* the physical bucket exists
    items,      \* number of objects stored in the bucket
    cdkJson,    \* context flags set to 'true' outside the command line
    last,       \* record of the most recent script invocation
    prev,       \* record of the invocation before it
    seq,        \* steps of Canon invoked so far, in order from the start; -1 once off it
    allOk,      \* every invocation so far exited 0
    clean,      \* no invocation so far met a missing prerequisite or a failing external call
    start,      \* the external state at the start
    resume,     \* steps of Canon invoked in order since the sequence was started over
                \* after a successful prefix of it; 0 before that, -1 once off it
    cpc,        \* where a run of the cleanup script stands ("idle": no run)
    clog,       \* what that run has been answered and has deleted, in order
    qfail,      \* qfail[i]: the query answered by last.obs[i] had failed
    proc        \* proc[p]: where concurrent invocation p of the script stands

vars == <<owned, exists, items, cdkJson, last, prev, seq, allOk, clean, start, resume,
          cpc, clog, qfail, proc>>

World == [owned |-> owned, exists |-> exists, items |-> items]

NoStep == [step |-> "none", res |-> "none", issued |-> <<>>, obs |-> <<>>,
           count |-> -1, fault |-> FALSE, env |-> [name |-> TRUE, aws |-> TRUE, cdk |-> TRUE, creds |-> TRUE],
           before |-> [owned |-> [s \in Stacks |-> FALSE], exists |-> FALSE, items |-> 0]]

\* ------------------------------------------------------ stack declarations
\* StackA declaring its bucket whatever the context.
StackADeclaresBucketAlways(ctx) == TRUE

\* lib/stack-a.ts: the bucket is declared unless context migrateBucket is 'true'.
StackADeclaresBucket(ctx) == ~("migrateBucket" \in ctx)

\* lib/stack-b.ts: the bucket is declared whatever the context.
StackBDeclaresBucket(ctx) == TRUE

\* The other StackB declaration of the repository (the one test/stack-b expects):
\* the bucket is declared only when context importBucket is 'true'.
StackBConditionalDeclaresBucket(ctx) == "importBucket" \in ctx

DeclaresBucket(s, ctx) ==
    IF s = "StackA" THEN StackADeclaresBucket(ctx) ELSE StackBDeclaresBucket(ctx)

RemovalPolicyDestroy == "DESTROY"
\* removalPolicy of the bucket in both declarations
RemovalPolicy == "RETAIN"

\* autoDeleteObjects of the bucket in both declarations
AutoDeleteObjects == FALSE

\* The properties StackA gives its bucket.
StackABucketProps ==
    [versioned |-> TRUE, removalPolicy |-> RemovalPolicy, autoDeleteObjects |-> AutoDeleteObjects]


\* ------------------------------------------------------------ Stack Engine
\* The outcome of an engine command on world w: whether it exited 0 and the
\* world it leaves.
Unchanged(w, ok) == [ok |-> ok, owned |-> w.owned, exists |-> w.exists, items |-> w.items]

\* DropFromStack with the bucket declared removalPolicy DESTROY and
\* autoDeleteObjects true: dropping it deletes the objects and the bucket.
DropFromStackDeleting(s, w) ==
    [ok |-> TRUE, owned |-> [w.owned EXCEPT ![s] = FALSE], exists |-> FALSE, items |-> 0]

\* What becomes of the bucket when a stack update drops it from the stack.
\* RETAIN leaves the bucket and its objects alone; DESTROY deletes the bucket,
\* which S3 accepts only for an empty bucket unless autoDeleteObjects empties it.
DropFromStack(s, w) ==
    LET gone == RemovalPolicy = "DESTROY" /\ (w.items = 0 \/ AutoDeleteObjects)
    IN  [ok     |-> TRUE,
         owned  |-> [w.owned EXCEPT ![s] = FALSE],
         exists |-> IF gone THEN FALSE ELSE w.exists,
         items  |-> IF gone THEN 0 ELSE w.items]

\* cdk deploy <s> with command-line context cli: the stack's resources are
\* reconciled to the declaration rendered under cli and the ambient context.
\* engineOk = FALSE is a deployment that fails and rolls back.
Deploy(s, cli, w, engineOk) ==
    LET want == DeclaresBucket(s, cli \cup cdkJson)
    IN  IF ~engineOk THEN Unchanged(w, FALSE)
        ELSE IF w.owned[s] /\ ~want THEN DropFromStack(s, w)
        ELSE IF ~w.owned[s] /\ want THEN
            IF w.exists THEN Unchanged(w, FALSE)   \* the bucket name is taken
            ELSE [ok |-> TRUE, owned |-> [w.owned EXCEPT ![s] = TRUE],
                  exists |-> TRUE, items |-> 0]
        ELSE Unchanged(w, TRUE)

ImportIgnoringOwner(s, cli, w, engineOk) ==
    LET want == DeclaresBucket(s, cli \cup cdkJson)
    IN  IF ~engineOk THEN Unchanged(w, FALSE)
        ELSE IF ~want \/ w.owned[s] THEN Unchanged(w, TRUE)
        ELSE IF ~w.exists THEN Unchanged(w, FALSE)
        ELSE [ok |-> TRUE, owned |-> [w.owned EXCEPT ![s] = TRUE],
              exists |-> w.exists, items |-> w.items]

\* cdk import <s> --resource-mapping ... with command-line context cli: the
\* resources the declaration adds to the deployed stack are attached to it.
\* Nothing to add is a success that changes nothing; a bucket that does not
\* exist, or that another stack lists, is refused.
ImportExisting(s, cli, w, engineOk) ==
    LET want == DeclaresBucket(s, cli \cup cdkJson)
    IN  IF ~engineOk THEN Unchanged(w, FALSE)
        ELSE IF ~want \/ w.owned[s] THEN Unchanged(w, TRUE)
        ELSE IF ~w.exists \/ (\E t \in Stacks \ {s} : w.owned[t]) THEN Unchanged(w, FALSE)
        ELSE [ok |-> TRUE, owned |-> [w.owned EXCEPT ![s] = TRUE],
              exists |-> w.exists, items |-> w.items]

\* A synth that also reconciles the stack to the declaration it rendered.
SynthDeploying(s, cli, w, engineOk) == Deploy(s, cli, w, engineOk)

\* cdk synth <s>: renders the declaration, deploys nothing.
Synth(s, cli, w, engineOk) == Unchanged(w, engineOk)

\* -------------------------------------------------------- Resource Inspector
\* An ownership query whose failure reads as "listed".
ResourceOwnerOrFailed(s, w, queryOk) == ~queryOk \/ w.owned[s]

\* aws cloudformation describe-stack-resources ... | grep -q "$BUCKET_NAME":
\* the pipeline's status is grep's, so a query that fails prints nothing and
\* reads as "not listed".
ResourceOwner(s, w, queryOk) == queryOk /\ w.owned[s]

\* aws s3api head-bucket
HeadBucket(w, callOk) == callOk /\ w.exists

\* aws s3 ls --recursive | wc -l: a listing that fails counts no line.
ObjectCount(w, callOk) == IF callOk /\ w.exists THEN w.items ELSE 0

\* A cdk command the script ran: the command, the stack, the --context it
\* passed, whether the declaration rendered for it declares the bucket, and
\* whether the command exited 0.
Req(op, s, cli, ok) ==
    [op |-> op, stack |-> s, ctx |-> cli,
     declares |-> DeclaresBucket(s, cli \cup cdkJson), ok |-> ok]
Obs(q, a) == [q |-> q, a |-> a]

\* ------------------------------------------------------------------ inputs
\* The environment validate_prereqs inspects.
EnvOk == [name |-> TRUE, aws |-> TRUE, cdk |-> TRUE, creds |-> TRUE]
Envs == {EnvOk} \cup {[EnvOk EXCEPT ![k] = FALSE] : k \in {"name", "aws", "cdk", "creds"}}

\* validate_prereqs without the credentials check.
validate_prereqs_no_creds(env) == env.name /\ env.aws /\ env.cdk

validate_prereqs(env) == env.name /\ env.aws /\ env.cdk /\ env.creds

\* ------------------------------------------------------- the script's steps
\* Each step maps the world w and the outcomes of the external calls it makes
\* to [res, issued, obs, count, fault, out]: its exit, the engine requests it
\* issued, the answers it read, the object count it printed (-1: none), whether
\* an external call failed on it, and the world it leaves.
Outcome(res, issued, obs, count, fault, out) ==
    [res |-> res, issued |-> issued, obs |-> obs, count |-> count, fault |-> fault, out |-> out]

\* validate_bucket that only warns about a bucket it cannot reach.
validate_bucket_lenient(w, headOk, queryOk, lsOk) ==
    Outcome("ok", <<>>,
            <<Obs("head", HeadBucket(w, headOk)), Obs(SOURCE_STACK, ResourceOwner(SOURCE_STACK, w, queryOk))>>,
            -1, ~headOk \/ ~queryOk \/ ~lsOk, Unchanged(w, TRUE))

validate_bucket(w, headOk, queryOk, lsOk) ==
    IF ~HeadBucket(w, headOk)
    THEN Outcome("NotFound", <<>>, <<Obs("head", FALSE)>>, -1, ~headOk, Unchanged(w, FALSE))
    ELSE Outcome("ok", <<>>,
                 <<Obs("head", TRUE), Obs(SOURCE_STACK, ResourceOwner(SOURCE_STACK, w, queryOk))>>,
                 -1, ~queryOk \/ ~lsOk, Unchanged(w, TRUE))

\* remove_from_source without the check that follows the deploy.
remove_from_source_unverified(w, query1Ok, engineOk, query2Ok) ==
    IF ~ResourceOwner(SOURCE_STACK, w, query1Ok)
    THEN Outcome("ok", <<>>, <<Obs(SOURCE_STACK, FALSE)>>, -1, ~query1Ok, Unchanged(w, TRUE))
    ELSE LET d == Deploy(SOURCE_STACK, {}, w, engineOk)
             req == <<Req("deploy", SOURCE_STACK, {}, d.ok)>>
         IN  IF ~d.ok
             THEN Outcome("ReconciliationError", req, <<Obs(SOURCE_STACK, TRUE)>>, -1, ~engineOk, d)
             ELSE Outcome("ok", req, <<Obs(SOURCE_STACK, TRUE)>>, -1, FALSE, d)

\* remove_from_source that deploys whatever the first query answers.
remove_from_source_unguarded(w, query1Ok, engineOk, query2Ok) ==
    LET pre == ResourceOwner(SOURCE_STACK, w, query1Ok)
        d == Deploy(SOURCE_STACK, {}, w, engineOk)
        req == <<Req("deploy", SOURCE_STACK, {}, d.ok)>>
        post == ResourceOwner(SOURCE_STACK, d, query2Ok)
    IN  IF ~d.ok
        THEN Outcome("ReconciliationError", req, <<Obs(SOURCE_STACK, pre)>>, -1,
                     ~query1Ok \/ ~engineOk, d)
        ELSE Outcome(IF post THEN "VerificationFailed" ELSE "ok", req,
                     <<Obs(SOURCE_STACK, pre), Obs(SOURCE_STACK, post)>>, -1,
                     ~query1Ok \/ ~query2Ok, d)

remove_from_source(w, query1Ok, engineOk, query2Ok) ==
    IF ~ResourceOwner(SOURCE_STACK, w, query1Ok)
    THEN Outcome("ok", <<>>, <<Obs(SOURCE_STACK, FALSE)>>, -1, ~query1Ok, Unchanged(w, TRUE))
    ELSE LET d == Deploy(SOURCE_STACK, {}, w, engineOk)
             req == <<Req("deploy", SOURCE_STACK, {}, d.ok)>>
             post == ResourceOwner(SOURCE_STACK, d, query2Ok)
         IN  IF ~d.ok
             THEN Outcome("ReconciliationError", req, <<Obs(SOURCE_STACK, TRUE)>>, -1, ~engineOk, d)
             ELSE Outcome(IF post THEN "VerificationFailed" ELSE "ok", req,
                          <<Obs(SOURCE_STACK, TRUE), Obs(SOURCE_STACK, post)>>, -1, ~query2Ok, d)

prepare_target(w, engineOk) ==
    LET r == Synth(TARGET_STACK, {}, w, engineOk)
    IN  Outcome(IF r.ok THEN "ok" ELSE "SynthesisError",
                <<Req("synth", TARGET_STACK, {}, r.ok)>>, <<>>, -1, ~engineOk, r)

\* import_bucket without the check that follows the import.
import_bucket_unchecked(w, engineOk, queryOk) ==
    LET i == ImportExisting(TARGET_STACK, {"importBucket"}, w, engineOk)
        req == <<Req("import", TARGET_STACK, {"importBucket"}, i.ok)>>
    IN  Outcome(IF i.ok THEN "ok" ELSE "ImportFailed", req, <<>>, -1, ~engineOk, i)

\* import_bucket reporting a failed check as a failed import.
import_bucket_conflating(w, engineOk, queryOk) ==
    LET i == ImportExisting(TARGET_STACK, {"importBucket"}, w, engineOk)
        req == <<Req("import", TARGET_STACK, {"importBucket"}, i.ok)>>
        post == ResourceOwner(TARGET_STACK, i, queryOk)
    IN  IF ~i.ok
        THEN Outcome("ImportFailed", req, <<>>, -1, ~engineOk, i)
        ELSE Outcome(IF post THEN "ok" ELSE "ImportFailed", req,
                     <<Obs(TARGET_STACK, post)>>, -1, ~queryOk, i)

import_bucket(w, engineOk, queryOk) ==
    LET i == ImportExisting(TARGET_STACK, {"importBucket"}, w, engineOk)
        req == <<Req("import", TARGET_STACK, {"importBucket"}, i.ok)>>
        post == ResourceOwner(TARGET_STACK, i, queryOk)
    IN  IF ~i.ok
        THEN Outcome("ImportFailed", req, <<>>, -1, ~engineOk, i)
        ELSE Outcome(IF post THEN "ok" ELSE "VerificationFailed", req,
                     <<Obs(TARGET_STACK, post)>>, -1, ~queryOk, i)

\* verify_migration without the check of the source stack.
verify_migration_target_only(w, queryTOk, querySOk, headOk, lsOk) ==
    LET t == ResourceOwner(TARGET_STACK, w, queryTOk)
        h == HeadBucket(w, headOk)
        same == Unchanged(w, FALSE)
    IN  IF ~t THEN Outcome("VerificationFailed", <<>>, <<Obs(TARGET_STACK, t)>>, -1, ~queryTOk, same)
        ELSE IF ~h THEN Outcome("VerificationFailed", <<>>,
                                <<Obs(TARGET_STACK, t), Obs("head", h)>>, -1, ~headOk, same)
        ELSE Outcome("ok", <<>>, <<Obs(TARGET_STACK, t), Obs("head", h)>>,
                     ObjectCount(w, lsOk), ~headOk \/ ~lsOk, Unchanged(w, TRUE))

verify_migration(w, queryTOk, querySOk, headOk, lsOk) ==
    LET t == ResourceOwner(TARGET_STACK, w, queryTOk)
        s == ResourceOwner(SOURCE_STACK, w, querySOk)
        h == HeadBucket(w, headOk)
        same == Unchanged(w, FALSE)
    IN  IF ~t THEN Outcome("VerificationFailed", <<>>, <<Obs(TARGET_STACK, t)>>, -1, ~queryTOk, same)
        ELSE IF s THEN Outcome("VerificationFailed", <<>>,
                               <<Obs(TARGET_STACK, t), Obs(SOURCE_STACK, s)>>, -1,
                               ~queryTOk \/ ~querySOk, same)
        ELSE IF ~h THEN Outcome("VerificationFailed", <<>>,
                                <<Obs(TARGET_STACK, t), Obs(SOURCE_STACK, s), Obs("head", h)>>, -1,
                                ~queryTOk \/ ~querySOk \/ ~headOk, same)
        ELSE Outcome("ok", <<>>,
                     <<Obs(TARGET_STACK, t), Obs(SOURCE_STACK, s), Obs("head", h)>>,
                     ObjectCount(w, lsOk),
                     ~queryTOk \/ ~querySOk \/ ~headOk \/ ~lsOk, Unchanged(w, TRUE))

\* A default branch that re-attaches the bucket to the source stack.
show_help_redeploying(w) ==
    LET d == Deploy(SOURCE_STACK, {}, w, TRUE)
    IN  Outcome("ok", <<Req("deploy", SOURCE_STACK, {}, d.ok)>>, <<>>, -1, FALSE, d)

\* show_help: prints the usage and exits 0.
show_help(w) == Outcome("ok", <<>>, <<>>, -1, FALSE, Unchanged(w, TRUE))

PrereqMissing(w) == Outcome("PrereqMissing", <<>>, <<>>, -1, TRUE, Unchanged(w, FALSE))

\* ---------------------------------------------------------------- dispatch
\* Which of the queries a step made had failed: oks lists, in the order the
\* step makes them, whether each query it can make is answered.
Failed(obs, oks) == [i \in DOMAIN obs |-> ~oks[i]]

\* The invocations of the script that may run at the same time, and one that
\* is not running.
Procs == {1, 2}
Idle == [pc |-> "idle", res |-> "none"]

\* The external calls of a step are made only once validate_prereqs has passed.
Answers(env) == IF validate_prereqs(env) THEN BOOLEAN ELSE {TRUE}

\* One invocation of the script: the case statement runs validate_prereqs,
\* which exits 1 when anything is missing, and then the step's function, whose
\* outcome is o.  The value is the state the invocation leaves.
Invoke(step, env, o) ==
    LET r == IF validate_prereqs(env) THEN o ELSE PrereqMissing(World)
    IN  [owned  |-> r.out.owned,
         exists |-> r.out.exists,
         items  |-> r.out.items,
         last   |-> [step |-> step, res |-> r.res, issued |-> r.issued, obs |-> r.obs,
                     count |-> r.count, fault |-> r.fault, env |-> env, before |-> World],
         prev   |-> [step |-> last.step, res |-> last.res, fault |-> last.fault,
                     before |-> last.before],
         seq    |-> IF seq >= 0 /\ seq < Len(Canon) /\ step = Canon[seq + 1]
                    THEN seq + 1 ELSE -1,
         allOk  |-> (allOk /\ r.res = "ok"),
         clean  |-> (clean /\ ~r.fault),
         resume |-> IF resume = 0
                    THEN IF seq >= 1 /\ step = Canon[1]
                         THEN (IF allOk THEN 1 ELSE -1)
                         ELSE IF seq >= 0 /\ seq < Len(Canon) /\ step = Canon[seq + 1]
                              THEN 0 ELSE -1
                    ELSE IF resume >= 1 /\ resume < Len(Canon) /\ step = Canon[resume + 1]
                         THEN resume + 1 ELSE -1]

Validate ==
    \E env \in Envs :
      \E headOk \in Answers(env), queryOk \in Answers(env), lsOk \in Answers(env) :
        \E n \in {Invoke("validate", env, validate_bucket(World, headOk, queryOk, lsOk))} :
            /\ owned' = n.owned /\ exists' = n.exists /\ items' = n.items
            /\ last' = n.last /\ prev' = n.prev
            /\ seq' = n.seq /\ allOk' = n.allOk /\ clean' = n.clean
            /\ resume' = n.resume
            /\ qfail' = Failed(n.last.obs, <<headOk, queryOk>>)
            /\ UNCHANGED <<cdkJson, start, cpc, clog, proc>>

RemoveSource ==
    \E env \in Envs :
      \E query1Ok \in Answers(env), engineOk \in Answers(env), query2Ok \in Answers(env) :
        \E n \in {Invoke("remove-source", env,
                        remove_from_source(World, query1Ok, engineOk, query2Ok))} :
            /\ owned' = n.owned /\ exists' = n.exists /\ items' = n.items
            /\ last' = n.last /\ prev' = n.prev
            /\ seq' = n.seq /\ allOk' = n.allOk /\ clean' = n.clean
            /\ resume' = n.resume
            /\ qfail' = Failed(n.last.obs, <<query1Ok, query2Ok>>)
            /\ UNCHANGED <<cdkJson, start, cpc, clog, proc>>

PrepareTarget ==
    \E env \in Envs :
      \E engineOk \in Answers(env) :
        \E n \in {Invoke("prepare-target", env, prepare_target(World, engineOk))} :
            /\ owned' = n.owned /\ exists' = n.exists /\ items' = n.items
            /\ last' = n.last /\ prev' = n.prev
            /\ seq' = n.seq /\ allOk' = n.allOk /\ clean' = n.clean
            /\ resume' = n.resume
            /\ qfail' = Failed(n.last.obs, <<>>)
            /\ UNCHANGED <<cdkJson, start, cpc, clog, proc>>

Import ==
    \E env \in Envs :
      \E engineOk \in Answers(env), queryOk \in Answers(env) :
        \E n \in {Invoke("import", env, import_bucket(World, engineOk, queryOk))} :
            /\ owned' = n.owned /\ exists' = n.exists /\ items' = n.items
            /\ last' = n.last /\ prev' = n.prev
            /\ seq' = n.seq /\ allOk' = n.allOk /\ clean' = n.clean
            /\ resume' = n.resume
            /\ qfail' = Failed(n.last.obs, <<queryOk>>)
            /\ UNCHANGED <<cdkJson, start, cpc, clog, proc>>

Verify ==
    \E env \in Envs :
      \E queryTOk \in Answers(env), querySOk \in Answers(env),
         headOk \in Answers(env), lsOk \in Answers(env) :
        \E n \in {Invoke("verify", env,
                        verify_migration(World, queryTOk, querySOk, headOk, lsOk))} :
            /\ owned' = n.owned /\ exists' = n.exists /\ items' = n.items
            /\ last' = n.last /\ prev' = n.prev
            /\ seq' = n.seq /\ allOk' = n.allOk /\ clean' = n.clean
            /\ resume' = n.resume
            /\ qfail' = Failed(n.last.obs, <<queryTOk, querySOk, headOk>>)
            /\ UNCHANGED <<cdkJson, start, cpc, clog, proc>>

\* "help", "rollback" and every other word fall to the default branch, which
\* does not run validate_prereqs.
Help ==
    \E step \in {"help", "rollback"} :
        \E n \in {Invoke(step, EnvOk, show_help(World))} :
            /\ owned' = n.owned /\ exists' = n.exists /\ items' = n.items
            /\ last' = n.last /\ prev' = n.prev
            /\ seq' = n.seq /\ allOk' = n.allOk /\ clean' = n.clean
            /\ resume' = n.resume
            /\ qfail' = <<>>
            /\ UNCHANGED <<cdkJson, start, cpc, clog, proc>>

Init ==
    /\ cdkJson \in SUBSET AmbientFlags
    /\ exists \in BOOLEAN
    /\ owned \in [Stacks -> BOOLEAN]
    /\ ~owned[TARGET_STACK]
    /\ owned[SOURCE_STACK] => exists
    /\ items \in ItemCounts
    /\ ~exists => items = 0
    /\ last = NoStep
    /\ prev = [step |-> "none", res |-> "none", fault |-> FALSE, before |-> NoStep.before]
    /\ seq = 0
    /\ allOk = TRUE
    /\ clean = TRUE
    /\ start = World
    /\ resume = 0
    /\ cpc = "idle"
    /\ clog = <<>>
    /\ qfail = <<>>
    /\ proc = [p \in Procs |-> Idle]

Next ==
    \/ Validate
    \/ RemoveSource
    \/ PrepareTarget
    \/ Import
    \/ Verify
    \/ Help

Spec == Init /\ [][Next]_vars

\* ======================================================= the cleanup script
\* What the operator may type at "Are you sure you want to continue? (yes/no)".
Responses == {"yes", "y", "no"}

confirm_action_any(response) == TRUE
\* confirm_action: anything but "yes" prints "Operation cancelled." and exits 0.
confirm_action(response) == response = "yes"

\* The state a stage of the script leaves: where the script stands, its log
\* extended by ev, and the world.
CStage(pc, ev, w) ==
    [cpc |-> pc, clog |-> clog \o ev, owned |-> w.owned, exists |-> w.exists, items |-> w.items]

\* The prerequisite checks at the end of the file, then main up to
\* BUCKET_NAME=$(get_bucket_name): the first confirmation, and the account
\* lookup that exits 1 when it finds no account.
cleanup_main(w, env, response, accountOk) ==
    IF ~(env.aws /\ env.cdk /\ env.creds) THEN CStage("failed", <<>>, w)
    ELSE IF ~confirm_action(response) THEN CStage("cancelled", <<response>>, w)
    ELSE IF ~accountOk THEN CStage("failed", <<response>>, w)
    ELSE CStage("empty", <<response>>, w)

\* empty_bucket: a bucket that is reachable and lists objects is emptied
\* (objects, versions, delete markers) once the operator has confirmed.
empty_bucket(w, headOk, lsOk, response, rmOk) ==
    IF ~HeadBucket(w, headOk) THEN CStage("stacks", <<>>, w)
    ELSE IF ObjectCount(w, lsOk) > 0
         THEN IF ~confirm_action(response) THEN CStage("cancelled", <<response>>, w)
              ELSE IF ~rmOk THEN CStage("failed", <<response>>, w)
              ELSE CStage("stacks", <<response, "objects">>, [w EXCEPT !.items = 0])
         ELSE CStage("stacks", <<>>, w)

\* Deleting stack s: the stack lists nothing any more, and a bucket it listed
\* is treated by its removal policy.
DestroyStack(s, w) ==
    IF w.owned[s]
    THEN LET d == DropFromStack(s, w)
         IN  [owned |-> d.owned, exists |-> d.exists, items |-> d.items]
    ELSE w

\* delete_stacks: StackB and then StackA, each only if describe-stacks finds
\* it; how[s] is "cdk" when cdk destroy deletes it, "cfn" when only the
\* CloudFormation fallback does, "fail" when both fail and set -e ends the script.
delete_stacks(w, found, how) ==
    LET wB == IF found[TARGET_STACK] /\ how[TARGET_STACK] # "fail"
              THEN DestroyStack(TARGET_STACK, w) ELSE w
        evB == IF found[TARGET_STACK] /\ how[TARGET_STACK] # "fail"
               THEN <<TARGET_STACK>> ELSE <<>>
    IN  IF found[TARGET_STACK] /\ how[TARGET_STACK] = "fail" THEN CStage("failed", <<>>, w)
        ELSE IF ~found[SOURCE_STACK] THEN CStage("force", evB, wB)
        ELSE IF how[SOURCE_STACK] = "fail" THEN CStage("failed", evB, wB)
        ELSE CStage("force", evB \o <<SOURCE_STACK>>, DestroyStack(SOURCE_STACK, wB))

\* force_delete_bucket, then cleanup_generated_files: a bucket still reachable
\* is removed, once the operator has confirmed, by `aws s3 rb --force` (which
\* deletes the objects it lists first) or else by delete-bucket, which S3
\* accepts for an empty bucket; rbEmptied tells whether a failing rb had
\* already deleted the objects.
force_delete_bucket(w, headOk, response, rbOk, rbEmptied, apiOk) ==
    LET objs == IF w.items > 0 THEN <<"objects">> ELSE <<>>
        emptied == [w EXCEPT !.items = 0]
        gone == [emptied EXCEPT !.exists = FALSE]
    IN  IF ~HeadBucket(w, headOk) THEN CStage("done", <<>>, w)
        ELSE IF ~confirm_action(response) THEN CStage("cancelled", <<response>>, w)
        ELSE IF rbOk THEN CStage("done", <<response>> \o objs \o <<"bucket">>, gone)
        ELSE IF rbEmptied
             THEN IF apiOk THEN CStage("done", <<response>> \o objs \o <<"bucket">>, gone)
                  ELSE CStage("failed", <<response>> \o objs, emptied)
             ELSE IF apiOk /\ w.items = 0 THEN CStage("done", <<response, "bucket">>, gone)
                  ELSE CStage("failed", <<response>>, w)

CleanupEnvs == {[aws |-> TRUE, cdk |-> TRUE, creds |-> TRUE],
                [aws |-> FALSE, cdk |-> TRUE, creds |-> TRUE],
                [aws |-> TRUE, cdk |-> FALSE, creds |-> TRUE],
                [aws |-> TRUE, cdk |-> TRUE, creds |-> FALSE]}

CleanupMain ==
    /\ cpc = "start"
    /\ \E env \in CleanupEnvs, response \in Responses, accountOk \in BOOLEAN :
        \E n \in {cleanup_main(World, env, response, accountOk)} :
            /\ cpc' = n.cpc /\ clog' = n.clog
            /\ owned' = n.owned /\ exists' = n.exists /\ items' = n.items
            /\ UNCHANGED <<cdkJson, last, prev, seq, allOk, clean, start, resume, qfail, proc>>

EmptyBucket ==
    /\ cpc = "empty"
    /\ \E headOk \in BOOLEAN, lsOk \in BOOLEAN, response \in Responses, rmOk \in BOOLEAN :
        \E n \in {empty_bucket(World, headOk, lsOk, response, rmOk)} :
            /\ cpc' = n.cpc /\ clog' = n.clog
            /\ owned' = n.owned /\ exists' = n.exists /\ items' = n.items
            /\ UNCHANGED <<cdkJson, last, prev, seq, allOk, clean, start, resume, qfail, proc>>

DeleteStacks ==
    /\ cpc = "stacks"
    /\ \E found \in [Stacks -> BOOLEAN], how \in [Stacks -> {"cdk", "cfn", "fail"}] :
        \E n \in {delete_stacks(World, found, how)} :
            /\ cpc' = n.cpc /\ clog' = n.clog
            /\ owned' = n.owned /\ exists' = n.exists /\ items' = n.items
            /\ UNCHANGED <<cdkJson, last, prev, seq, allOk, clean, start, resume, qfail, proc>>

ForceDeleteBucket ==
    /\ cpc = "force"
    /\ \E headOk \in BOOLEAN, response \in Responses,
          rbOk \in BOOLEAN, rbEmptied \in BOOLEAN, apiOk \in BOOLEAN :
        \E n \in {force_delete_bucket(World, headOk, response, rbOk, rbEmptied, apiOk)} :
            /\ cpc' = n.cpc /\ clog' = n.clog
            /\ owned' = n.owned /\ exists' = n.exists /\ items' = n.items
            /\ UNCHANGED <<cdkJson, last, prev, seq, allOk, clean, start, resume, qfail, proc>>

\* A run of the cleanup script starts on any bucket and ownership the
\* migration can leave.
CleanupInit ==
    /\ cdkJson = {}
    /\ exists \in BOOLEAN
    /\ owned \in [Stacks -> BOOLEAN]
    /\ ~(owned[SOURCE_STACK] /\ owned[TARGET_STACK])
    /\ (\E s \in Stacks : owned[s]) => exists
    /\ items \in ItemCounts
    /\ ~exists => items = 0
    /\ last = NoStep
    /\ prev = [step |-> "none", res |-> "none", fault |-> FALSE, before |-> NoStep.before]
    /\ seq = 0
    /\ allOk = TRUE
    /\ clean = TRUE
    /\ start = World
    /\ resume = 0
    /\ cpc = "start"
    /\ clog = <<>>
    /\ qfail = <<>>
    /\ proc = [p \in Procs |-> Idle]

CleanupNext ==
    \/ CleanupMain
    \/ EmptyBucket
    \/ DeleteStacks
    \/ ForceDeleteBucket

CleanupSpec == CleanupInit /\ [][CleanupNext]_vars

\* ============================================ invocations run concurrently
\* Two invocations of the script run remove-source or import at the same
\* time.  The script takes no lock, so each of its external calls is a step
\* of its own and the calls of the two invocations interleave freely; the
\* engine applies one deploy or one import at a time.
ConcSteps == {"remove-source", "import"}
At(pc) == [pc |-> pc, res |-> "none"]
Exit(res) == [pc |-> "idle", res |-> res]

\* The case statement: validate_prereqs, then the step's function.
ConcStart ==
    \E p \in Procs, step \in ConcSteps, env \in Envs :
        /\ proc[p].pc = "idle"
        /\ proc' = [proc EXCEPT ![p] =
                       IF ~validate_prereqs(env) THEN Exit("PrereqMissing")
                       ELSE IF step = "remove-source" THEN At("rs_check")
                       ELSE At("im_import")]
        /\ UNCHANGED <<owned, exists, items, cdkJson, last, prev, seq, allOk, clean,
                       start, resume, cpc, clog, qfail>>

\* remove_from_source, the first query: not listed is "skipping removal".
RsCheck ==
    \E p \in Procs, queryOk \in BOOLEAN :
        /\ proc[p].pc = "rs_check"
        /\ proc' = [proc EXCEPT ![p] =
                       IF ResourceOwner(SOURCE_STACK, World, queryOk)
                       THEN At("rs_deploy") ELSE Exit("ok")]
        /\ UNCHANGED <<owned, exists, items, cdkJson, last, prev, seq, allOk, clean,
                       start, resume, cpc, clog, qfail>>

\* remove_from_source, cdk deploy "$SOURCE_STACK": set -e ends the script
\* when it fails.
RsDeploy ==
    \E p \in Procs, engineOk \in BOOLEAN :
        \E d \in {Deploy(SOURCE_STACK, {}, World, engineOk)} :
            /\ proc[p].pc = "rs_deploy"
            /\ owned' = d.owned /\ exists' = d.exists /\ items' = d.items
            /\ proc' = [proc EXCEPT ![p] =
                           IF d.ok THEN At("rs_verify") ELSE Exit("ReconciliationError")]
            /\ UNCHANGED <<cdkJson, last, prev, seq, allOk, clean,
                           start, resume, cpc, clog, qfail>>

\* remove_from_source, the query after the deploy.
RsVerify ==
    \E p \in Procs, queryOk \in BOOLEAN :
        /\ proc[p].pc = "rs_verify"
        /\ proc' = [proc EXCEPT ![p] =
                       IF ResourceOwner(SOURCE_STACK, World, queryOk)
                       THEN Exit("VerificationFailed") ELSE Exit("ok")]
        /\ UNCHANGED <<owned, exists, items, cdkJson, last, prev, seq, allOk, clean,
                       start, resume, cpc, clog, qfail>>

\* import_bucket, cdk import "$TARGET_STACK" ... --context importBucket=true.
ImImport ==
    \E p \in Procs, engineOk \in BOOLEAN :
        \E i \in {ImportExisting(TARGET_STACK, {"importBucket"}, World, engineOk)} :
            /\ proc[p].pc = "im_import"
            /\ owned' = i.owned /\ exists' = i.exists /\ items' = i.items
            /\ proc' = [proc EXCEPT ![p] =
                           IF i.ok THEN At("im_verify") ELSE Exit("ImportFailed")]
            /\ UNCHANGED <<cdkJson, last, prev, seq, allOk, clean,
                           start, resume, cpc, clog, qfail>>

\* import_bucket, the query after the import.
ImVerify ==
    \E p \in Procs, queryOk \in BOOLEAN :
        /\ proc[p].pc = "im_verify"
        /\ proc' = [proc EXCEPT ![p] =
                       IF ResourceOwner(TARGET_STACK, World, queryOk)
                       THEN Exit("ok") ELSE Exit("VerificationFailed")]
        /\ UNCHANGED <<owned, exists, items, cdkJson, last, prev, seq, allOk, clean,
                       start, resume, cpc, clog, qfail>>

ConcInit ==
    /\ cdkJson \in SUBSET AmbientFlags
    /\ exists \in BOOLEAN
    /\ owned \in [Stacks -> BOOLEAN]
    /\ ~owned[TARGET_STACK]
    /\ owned[SOURCE_STACK] => exists
    /\ items \in ItemCounts
    /\ ~exists => items = 0
    /\ last = NoStep
    /\ prev = [step |-> "none", res |-> "none", fault |-> FALSE, before |-> NoStep.before]
    /\ seq = 0
    /\ allOk = TRUE
    /\ clean = TRUE
    /\ start = World
    /\ resume = 0
    /\ cpc = "idle"
    /\ clog = <<>>
    /\ qfail = <<>>
    /\ proc = [p \in Procs |-> Idle]

ConcNext ==
    \/ ConcStart
    \/ RsCheck
    \/ RsDeploy
    \/ RsVerify
    \/ ImImport
    \/ ImVerify

ConcSpec == ConcInit /\ [][ConcNext]_vars

\* ================================================================ properties
SourceOwns == owned[SOURCE_STACK]
TargetOwns == owned[TARGET_STACK]
NoOwner == ~SourceOwns /\ ~TargetOwns
OnlySource == [s \in Stacks |-> s = SOURCE_STACK]
MigrationSteps == {Canon[i] : i \in 1..Len(Canon)}
\* The step's function ran: validate_prereqs let the invocation through.
Ran(rec, step) == rec.step = step /\ rec.res # "PrereqMissing"
\* The end-to-end scenario's start: the bucket exists, StackA owns it, 5 objects.
ScenarioStart == start.exists /\ start.owned = OnlySource /\ start.items = SampleFiles

C2_EndToEnd ==
    (ScenarioStart /\ clean /\ seq >= 1) =>
        /\ allOk
        /\ seq \in {2, 3} => NoOwner
        /\ seq = 3 => owned = last.before.owned
        /\ seq \in {4, 5} => (TargetOwns /\ ~SourceOwns)
        /\ seq = 5 => (items = SampleFiles /\ last.count = SampleFiles)

\* C3: after validate, remove-source, prepare-target, import and verify have
\* run in that order, the bucket holds as many objects as at the start.
C3_Retention == seq = Len(Canon) => items = start.items

\* C3 witness: a whole migration that succeeded on a bucket holding objects.
C3_FullRunDone ==
    /\ seq = Len(Canon) /\ allOk
    /\ start.owned[SOURCE_STACK] /\ start.items = SampleFiles
    /\ TargetOwns

\* C4: a bucket that exists at the start exists in every reachable state.
C4_BucketSurvives == start.exists => exists

\* C4 witness: remove-source has dropped the bucket from the source stack.
C4_DroppedFromSource ==
    /\ Ran(last, "remove-source") /\ last.res = "ok"
    /\ last.before.owned[SOURCE_STACK] /\ ~SourceOwns
    /\ exists

\* C5: two remove-source invocations in a row, the first on a bucket owned by
\* the source stack, both exit 0, and the second leaves ownership as the first
\* left it.
C5_RemoveTwice ==
    (/\ Ran(prev, "remove-source") /\ Ran(last, "remove-source")
     /\ prev.before.owned = OnlySource
     /\ ~prev.fault /\ ~last.fault) =>
        /\ prev.res = "ok"
        /\ last.res = "ok"
        /\ owned = last.before.owned

\* C6: import on a bucket the target stack already owns exits 0, issues no
\* import request to the Stack Engine and leaves ownership unchanged.
C6_ImportNoOp ==
    (Ran(last, "import") /\ last.before.owned[TARGET_STACK] /\ ~last.fault) =>
        /\ last.res = "ok"
        /\ last.issued = <<>>
        /\ owned = last.before.owned

C9_NothingAfterNotFound ==
    /\ (Ran(last, "validate") /\ ~last.before.exists) => last.res = "NotFound"
    /\ ~(/\ prev.step = "validate" /\ prev.res = "NotFound" /\ ~prev.before.exists
         /\ last.step \in MigrationSteps \ {"validate"} /\ last.res # "PrereqMissing")

\* C9 (amended): validate on a bucket that does not exist exits NotFound after
\* the existence check alone, with no ownership query and nothing changed.
C9_ValidateNotFound ==
    (Ran(last, "validate") /\ ~last.before.exists) =>
        /\ last.res = "NotFound"
        /\ last.obs = <<Obs("head", FALSE)>>
        /\ last.issued = <<>>
        /\ World = last.before

\* C9 witness: validate has met a bucket that does not exist.
C9_ValidatedMissingBucket ==
    Ran(last, "validate") /\ ~last.before.exists /\ ~last.fault

\* C10: verify exits 0 exactly when it saw the target stack own the bucket,
\* the source stack not own it and the bucket reachable; when its calls were
\* answered that is exactly when this is the case; the object count it prints
\* plays no part.
C10_VerifyIff ==
    Ran(last, "verify") =>
        /\ last.res \in {"ok", "VerificationFailed"}
        /\ last.res = "ok" <=>
               last.obs = <<Obs(TARGET_STACK, TRUE), Obs(SOURCE_STACK, FALSE), Obs("head", TRUE)>>
        /\ ~last.fault => (last.res = "ok" <=> (TargetOwns /\ ~SourceOwns /\ exists))
        /\ last.res = "ok" <=> last.count >= 0

\* C10 witness: verify exits 0 having printed a count that is not the number of
\* objects in the bucket.
C10_VerifiedWithWrongCount ==
    Ran(last, "verify") /\ last.res = "ok" /\ last.count # items

\* The answer the step read last.
LastObs(rec) == rec.obs[Len(rec.obs)]
VerifiedObs == <<Obs(TARGET_STACK, TRUE), Obs(SOURCE_STACK, FALSE), Obs("head", TRUE)>>

C12_ResumeFromAnyPrefix ==
    (start.exists /\ start.owned = OnlySource /\ clean /\ resume >= 1) =>
        /\ allOk
        /\ resume = Len(Canon) => (TargetOwns /\ ~SourceOwns)

\* C13: the declaration rendered for the target stack declares the bucket
\* exactly when context importBucket is 'true'.
C13_StackBFollowsFlag ==
    \A i \in DOMAIN last.issued :
        last.issued[i].stack = TARGET_STACK =>
            (last.issued[i].declares <=> "importBucket" \in (last.issued[i].ctx \cup cdkJson))

\* C14: the declaration rendered for the source stack declares the bucket
\* exactly when context migrateBucket is not 'true', a deploy that succeeds
\* leaves the stack listing the bucket exactly then, and the bucket is
\* versioned and retained: dropped from the stack, it still exists.
C14_StackAFollowsFlag ==
    /\ \A i \in DOMAIN last.issued :
           last.issued[i].stack = SOURCE_STACK =>
               (last.issued[i].declares <=> "migrateBucket" \notin (last.issued[i].ctx \cup cdkJson))
    /\ (Ran(last, "remove-source") /\ last.issued # <<>> /\ last.issued[1].ok) =>
           /\ SourceOwns <=> "migrateBucket" \notin cdkJson
           /\ exists
    /\ StackABucketProps.versioned
    /\ StackABucketProps.removalPolicy = "RETAIN"

\* C14 witness: StackA was deployed with migrateBucket set and no longer lists
\* the bucket.
C14_DeployedWithoutBucket ==
    /\ Ran(last, "remove-source") /\ last.issued # <<>> /\ last.issued[1].ok
    /\ ~last.issued[1].declares
    /\ "migrateBucket" \in cdkJson /\ ~SourceOwns

\* C15: a migration step invoked with the bucket name, a tool or the
\* credentials missing exits non-zero having queried and issued nothing, and
\* leaves the external state as it was.
C15_NoStepWithoutPrereqs ==
    (last.step \in MigrationSteps /\ (\E k \in DOMAIN last.env : ~last.env[k])) =>
        /\ last.res = "PrereqMissing"
        /\ last.issued = <<>>
        /\ last.obs = <<>>
        /\ World = last.before

\* C15 witness: import was invoked without credentials on a bucket it could
\* have imported.
C15_ImportWithoutCredentials ==
    /\ last.step = "import" /\ ~last.env.creds
    /\ last.before.exists /\ last.before.owned = [s \in Stacks |-> FALSE]

\* C16: rollback, like every step name outside the five, issues no cdk command,
\* makes no query and leaves the external state as it was.
C16_RollbackDoesNothing ==
    (last.step \notin MigrationSteps \cup {"none"}) =>
        /\ last.issued = <<>>
        /\ last.obs = <<>>
        /\ World = last.before

\* C16 witness: rollback was invoked after the target stack took the bucket.
C16_RollbackAfterImport == last.step = "rollback" /\ last.before.owned[TARGET_STACK]

\* C18: the deploy remove-source issues for a bucket the source stack owns
\* passes context migrateBucket, and the declaration rendered for it does not
\* declare the bucket.
C18_DeployCarriesFlag ==
    (Ran(last, "remove-source") /\ last.before.owned[SOURCE_STACK] /\ last.issued # <<>>) =>
        /\ "migrateBucket" \in last.issued[1].ctx
        /\ ~last.issued[1].declares

\* C19: remove-source that reads the source stack as not listing the bucket
\* exits 0 after that one query, issues no deploy and changes nothing.
C19_SkipWhenNotOwned ==
    (Ran(last, "remove-source") /\ last.obs[1] = Obs(SOURCE_STACK, FALSE)) =>
        /\ last.res = "ok"
        /\ last.issued = <<>>
        /\ Len(last.obs) = 1
        /\ World = last.before

\* C19 witness: remove-source skipped on a bucket the source stack does not own.
C19_Skipped ==
    /\ Ran(last, "remove-source") /\ ~last.fault
    /\ ~last.before.owned[SOURCE_STACK] /\ last.before.exists
    /\ last.res = "ok"

\* C20: in remove-source and import a mutating command that fails ends the
\* step as ReconciliationError or ImportFailed, and one that succeeds followed
\* by a postcondition read as not met ends it as VerificationFailed, never 0.
C20_VerificationFailedDistinct ==
    /\ (Ran(last, "remove-source") /\ last.issued # <<>>) =>
           /\ ~last.issued[1].ok => last.res = "ReconciliationError"
           /\ last.issued[1].ok =>
                  (Len(last.obs) = 2 /\ (LastObs(last).a <=> last.res = "VerificationFailed")
                                     /\ (~LastObs(last).a <=> last.res = "ok"))
    /\ Ran(last, "import") =>
           /\ ~last.issued[1].ok => last.res = "ImportFailed"
           /\ last.issued[1].ok =>
                  (Len(last.obs) = 1 /\ (~LastObs(last).a <=> last.res = "VerificationFailed")
                                     /\ (LastObs(last).a <=> last.res = "ok"))

\* C20 witness: the deploy succeeded, the source stack still lists the bucket
\* and remove-source ended as VerificationFailed.
C20_DeployedButStillOwned ==
    /\ Ran(last, "remove-source") /\ last.issued # <<>> /\ last.issued[1].ok
    /\ SourceOwns /\ ~last.fault
    /\ last.res = "VerificationFailed"

\* The number of times the operator had answered "yes" before event i.
YesBefore(i) == Cardinality({j \in 1..(i - 1) : clog[j] = "yes"})
Deletions == {"objects", "bucket"} \cup Stacks

\* C17: in a run of the cleanup script nothing is deleted unless the first
\* answer was "yes"; objects are deleted only after a second "yes" and the
\* bucket only after a second "yes"; an answer other than "yes" is the last
\* thing the run does; and the bucket and its objects are gone only if the
\* run deleted them.
C17_CleanupGated ==
    /\ \A i \in DOMAIN clog :
        /\ clog[i] \in Deletions => clog[1] = "yes"
        /\ clog[i] \in {"objects", "bucket"} => YesBefore(i) >= 2
        /\ clog[i] \in Responses \ {"yes"} => (i = Len(clog) /\ cpc = "cancelled")
    /\ items # start.items => (\E i \in DOMAIN clog : clog[i] = "objects")
    /\ exists # start.exists => (\E i \in DOMAIN clog : clog[i] = "bucket")

\* C17 witness: a run that emptied a bucket holding objects, deleted both
\* stacks and removed the bucket, on three "yes".
C17_CleanedUp ==
    /\ cpc = "done" /\ start.items > 0 /\ ~exists
    /\ clog = <<"yes", "yes", "objects", TARGET_STACK, SOURCE_STACK, "yes", "bucket">>

ReadOnlySteps == {"validate", "prepare-target", "verify"}

\* C21: validate, prepare-target and verify, whatever their exit, leave the
\* ownership of the bucket, its existence and its objects as they found them,
\* and issue no deploy and no import.
C21_ReadOnlySteps ==
    last.step \in ReadOnlySteps =>
        /\ World = last.before
        /\ \A i \in DOMAIN last.issued : last.issued[i].op = "synth"

\* C21 witness: prepare-target rendered the target stack while no bucket
\* existed, and the verify that followed failed.
C21_PreparedThenVerifyFailed ==
    /\ Ran(last, "verify") /\ last.res = "VerificationFailed"
    /\ prev.step = "prepare-target" /\ prev.res = "ok"
    /\ ~prev.before.exists

\* C22: the synth prepare-target runs passes context importBucket, the
\* declaration it renders declares the bucket, and nothing is deployed.
C22_PrepareRendersForImport ==
    Ran(last, "prepare-target") =>
        /\ Len(last.issued) = 1 /\ last.issued[1].op = "synth"
        /\ "importBucket" \in last.issued[1].ctx
        /\ last.issued[1].declares
        /\ World = last.before

C24_FailedQueryIsNotOwned ==
    /\ \A i \in DOMAIN qfail :
           (qfail[i] /\ last.obs[i].q \in Stacks) => ~last.obs[i].a
    /\ (Ran(last, "remove-source") /\ qfail[1]) =>
           (last.res = "ok" /\ last.issued = <<>> /\ World = last.before)
    /\ (Ran(last, "verify") /\ Len(qfail) >= 2 /\ qfail[2]) =>
           (Len(last.obs) = 3 /\ (last.obs[3].a => last.res = "ok"))
    /\ (Ran(last, "import") /\ Len(qfail) = 1 /\ qfail[1]) =>
           last.res = "VerificationFailed"
    /\ (Ran(last, "verify") /\ qfail[1]) => last.res = "VerificationFailed"

\* C24 witness: the source stack owned the bucket, the query of remove-source
\* failed and the step skipped the removal; the bucket is still the source
\* stack's.
C24_RemovalSkippedOnFailedQuery ==
    /\ Ran(last, "remove-source") /\ Len(qfail) = 1 /\ qfail[1]
    /\ last.before.owned[SOURCE_STACK] /\ SourceOwns
    /\ last.res = "ok"
====
